---- MODULE Spec2Model ----
(***************************************************************************)
(* A model of the DSDL front-end's type builder and cross-file resolver    *)
(* (src/pydsdl/dsdl_parser.py): parse_definition and the _TypeBuilder      *)
(* statement handlers, as a state machine over a stack of parse_definition *)
(* invocations.                                                             *)
(*                                                                          *)
(* Python None and Optional[T] are modelled as sequences of length 0 or 1. *)
(* Error messages are modelled as lower-cased word sequences, so that      *)
(* "the error says ..." is containment of a phrase.                        *)
(* Attribute names are abstracted away: the inputs are taken to be free of *)
(* attribute-name collisions.                                               *)
(***************************************************************************)
EXTENDS Integers, Sequences, FiniteSets, TLC

VARIABLES
    configuration_options,  \* ConfigurationOptions given to the top-level call
    target,                 \* definition given to the top-level parse_definition
    lookup,                 \* lookup_definitions given to the top-level call
    stack,                  \* active parse_definition invocations, outermost first
    exc,                    \* exception in flight (None or one exception)
    result,                 \* outcome of the top-level parse_definition
    printed,                \* invocations of the print handler so far
    steps,                  \* statements consumed so far, over all invocations
    last,                   \* the operation performed by the latest step
    parsed,                 \* definitions given to parse_definition so far, in order
    evaluation              \* the constant expression under evaluation, and its outcome

vars == <<configuration_options, target, lookup, stack, exc, result, printed, steps, last,
          parsed, evaluation>>

----------------------------------------------------------------------------
(* Bounds of the model *)

\* statements read from one definition file
MaxLine == 3

\* statements read over all the files of one top-level call
MaxSteps == 4

----------------------------------------------------------------------------
(* Optional values *)

None == <<>>

Some(x) == <<x>>

TheValue(o) == o[1]

Last(s) == s[Len(s)]

ReplaceLast(s, x) == [s EXCEPT ![Len(s)] = x]

Front(s) == SubSeq(s, 1, Len(s) - 1)

----------------------------------------------------------------------------
(* Expression values handed to the directive handlers *)

Boolean(v) == [kind |-> "boolean", native_value |-> IF v THEN "true" ELSE "false"]

Rational(n) == [kind |-> "rational", native_value |-> ToString(n)]

String(s) == [kind |-> "string", native_value |-> s]

EmptySet == [kind |-> "set", native_value |-> "{}"]

\* the value of a directive's expression: None when the directive has no expression
DirectiveValues ==
    {None, Some(Boolean(TRUE)), Some(Boolean(FALSE)), Some(Rational(1)),
     Some(String("worker")), Some(EmptySet)}

----------------------------------------------------------------------------
(* Exceptions *)

Exception(type, text) == [type |-> type, text |-> text, path |-> None, line |-> None]

ExceptionAt(type, text, path, line) ==
    [type |-> type, text |-> text, path |-> Some(path), line |-> Some(line)]

\* the message of e contains the phrase (a sequence of lower-cased words)
Says(e, phrase) ==
    \E i \in 1..(Len(e.text) - Len(phrase) + 1) :
        SubSeq(e.text, i, i + Len(phrase) - 1) = phrase

----------------------------------------------------------------------------
(* Definition descriptors (DSDLDefinition) *)

DSDLDefinition(file_path, full_name, version, fixed_port_id) ==
    [file_path |-> file_path, full_name |-> full_name, version |-> version,
     fixed_port_id |-> fixed_port_id]

\* a name is a sequence of components; the namespace is all but the short name
full_namespace(definition) == Front(definition.full_name)

Version(major, minor) == [major |-> major, minor |-> minor]

\* standalone definitions, with and without a fixed port-ID
StandaloneDefinitions ==
    {DSDLDefinition("vendor/A.1.0.uavcan", <<"vendor", "A">>, Version(1, 0), None),
     DSDLDefinition("vendor/300.A.1.0.uavcan", <<"vendor", "A">>, Version(1, 0), Some(300)),
     DSDLDefinition("vendor/58000.A.1.0.uavcan", <<"vendor", "A">>, Version(1, 0), Some(58000)),
     DSDLDefinition("vendor/10000.A.1.0.uavcan", <<"vendor", "A">>, Version(1, 0), Some(10000))}

----------------------------------------------------------------------------
(* Regulated port-ID ranges (port_id_ranges) *)

is_valid_regulated_subject_id(port_id, root_namespace) ==
    root_namespace = "vendor" /\ port_id \in {58000}

is_valid_regulated_service_id(port_id, root_namespace) ==
    root_namespace = "vendor" /\ port_id \in {300}

----------------------------------------------------------------------------
(* Data types and attributes (data_type) *)

PrimitiveTypes == {"uint8", "uint7"}

PrimitiveType(name) == [kind |-> "PrimitiveType", name |-> name]

VoidType(bits) == [kind |-> "VoidType", bits |-> bits]

DynamicArrayType(element_type, max_size) ==
    [kind |-> "DynamicArrayType", element_type |-> element_type, max_size |-> max_size]

\* the types of the fields read: two primitives and an array of up to one byte
FieldTypes ==
    {PrimitiveType(name) : name \in PrimitiveTypes}
        \cup {DynamicArrayType(PrimitiveType("uint8"), 1)}

Field(data_type) == [attribute |-> "Field", data_type |-> data_type]

PaddingField(data_type) == [attribute |-> "PaddingField", data_type |-> data_type]

Constant(data_type, value) ==
    [attribute |-> "Constant", data_type |-> data_type, value |-> value]

NumberOfVariants(attributes) ==
    Cardinality({i \in 1..Len(attributes) : attributes[i].attribute = "Field"})

HasPadding(attributes) ==
    \E i \in 1..Len(attributes) : attributes[i].attribute = "PaddingField"

\* a constructor either returns a value or raises
Returned(value) == [exc |-> None, value |-> Some(value)]

Raised(e) == [exc |-> Some(e), value |-> None]

\* what the UnionType constructor rejects
MalformedUnion(attributes) ==
    IF NumberOfVariants(attributes) < 2
    THEN Some(Exception("TypeParameterError",
                        <<"a", "tagged", "union", "cannot", "contain", "less", "than",
                          "2", "variants">>))
    ELSE IF HasPadding(attributes)
    THEN Some(Exception("TypeParameterError",
                        <<"padding", "fields", "not", "allowed", "in", "unions">>))
    ELSE None

StructureType(name, version, attributes, deprecated, fixed_port_id, source_file_path) ==
    Returned([kind |-> "StructureType", name |-> name, version |-> version,
              attributes |-> attributes, deprecated |-> deprecated,
              fixed_port_id |-> fixed_port_id, source_file_path |-> source_file_path])

UnionType(name, version, attributes, deprecated, fixed_port_id, source_file_path) ==
    IF MalformedUnion(attributes) # None
    THEN Raised(TheValue(MalformedUnion(attributes)))
    ELSE Returned([kind |-> "UnionType", name |-> name, version |-> version,
                   attributes |-> attributes, deprecated |-> deprecated,
                   fixed_port_id |-> fixed_port_id, source_file_path |-> source_file_path])

ServiceType(name, version, request_attributes, response_attributes, request_is_union, response_is_union, deprecated, fixed_port_id, source_file_path) ==
    IF request_is_union /\ MalformedUnion(request_attributes) # None
    THEN Raised(TheValue(MalformedUnion(request_attributes)))
    ELSE IF response_is_union /\ MalformedUnion(response_attributes) # None
    THEN Raised(TheValue(MalformedUnion(response_attributes)))
    ELSE Returned([kind |-> "ServiceType", name |-> name, version |-> version,
                   request_attributes |-> request_attributes,
                   response_attributes |-> response_attributes,
                   request_is_union |-> request_is_union,
                   response_is_union |-> response_is_union,
                   deprecated |-> deprecated, fixed_port_id |-> fixed_port_id,
                   source_file_path |-> source_file_path])

root_namespace(out) == out.name[1]

----------------------------------------------------------------------------
(* DataStructureBuilder: one in-progress accumulator *)

DataStructureBuilder == [attributes |-> <<>>, union |-> FALSE, empty |-> TRUE]

add_field(struct, field) ==
    [struct EXCEPT !.attributes = Append(@, field), !.empty = FALSE]

add_constant(struct, constant) ==
    [struct EXCEPT !.attributes = Append(@, constant), !.empty = FALSE]

make_union(struct) == [struct EXCEPT !.union = TRUE]

----------------------------------------------------------------------------
(* Values of constant expressions (ast_transformer): bool, Fraction, str and *)
(* frozenset, as records of one shape                                         *)

bool(b) == [kind |-> "bool", n |-> IF b THEN 1 ELSE 0, d |-> 1, s |-> "", e |-> {}]

str(s) == [kind |-> "str", n |-> 0, d |-> 1, s |-> s, e |-> {}]

frozenset(elements) == [kind |-> "frozenset", n |-> 0, d |-> 1, s |-> "", e |-> elements]

Abs(x) == IF x < 0 THEN -x ELSE x

RECURSIVE GCD(_, _)
GCD(a, b) == IF b = 0 THEN a ELSE GCD(b, a % b)

\* Fraction(numerator, denominator) for a denominator other than zero: lowest
\* terms, the sign on the numerator
Fraction(numerator, denominator) ==
    LET g == GCD(Abs(numerator), Abs(denominator))
        sign == IF denominator < 0 THEN -1 ELSE 1
    IN  [kind |-> "Fraction", n |-> sign * (numerator \div g),
         d |-> Abs(denominator) \div g, s |-> "", e |-> {}]

RECURSIVE Power(_, _)
Power(base, exponent) == IF exponent = 0 THEN 1 ELSE base * Power(base, exponent - 1)

\* floor(numerator / denominator) for a denominator other than zero
FloorDiv(numerator, denominator) ==
    IF denominator < 0 THEN (-numerator) \div (-denominator)
                       ELSE numerator \div denominator

\* the largest integer whose square is at most x
ISqrt(x) == CHOOSE r \in 0..x : r * r <= x /\ (r + 1) * (r + 1) > x

ZeroDivisionError == Raised(Exception("ZeroDivisionError", <<"division", "by", "zero">>))

\* Fraction(a / b), Fraction(a // b) and Fraction(a % b) of fractions
TrueDiv(a, b) ==
    IF b.n = 0 THEN ZeroDivisionError ELSE Returned(Fraction(a.n * b.d, a.d * b.n))

FloorDivide(a, b) ==
    IF b.n = 0 THEN ZeroDivisionError
    ELSE Returned(Fraction(FloorDiv(a.n * b.d, a.d * b.n), 1))

Modulo(a, b) ==
    IF b.n = 0 THEN ZeroDivisionError
    ELSE LET q == FloorDiv(a.n * b.d, a.d * b.n)
         IN  Returned(Fraction(a.n * b.d - q * b.n * a.d, a.d * b.d))

\* Fraction(a ** b). An integral exponent gives the exact power, and a negative
\* one of zero divides by zero. Any other exponent gives float(a) ** float(b):
\* a complex number for a negative base, which Fraction() refuses with
\* TypeError, and else a float; the exponent 1/2 is the only one modelled, the
\* float being the square root cut to 8 binary places.
Pow(a, b) ==
    IF b.d = 1
    THEN IF b.n >= 0
         THEN Returned(Fraction(Power(a.n, b.n), Power(a.d, b.n)))
         ELSE IF a.n = 0
         THEN ZeroDivisionError
         ELSE Returned(Fraction(Power(a.d, -b.n), Power(a.n, -b.n)))
    ELSE IF a.n < 0
    THEN Raised(Exception("TypeError", <<"argument", "should", "be", "a", "string", "or",
                                         "a", "rational", "instance">>))
    ELSE IF a.n = 0 /\ b.n < 0
    THEN ZeroDivisionError
    ELSE Returned(Fraction(ISqrt((a.n * 65536) \div a.d), 256))

\* the bits of an integer in two's complement, as a number below 2^8
Unsigned(x) == x % 256

Signed(x) == IF x >= 128 THEN x - 256 ELSE x

RECURSIVE Bitwise(_, _, _)
Bitwise(symbol, x, y) ==
    IF x = 0 /\ y = 0
    THEN 0
    ELSE LET p == x % 2
             q == y % 2
             bit == CASE symbol = "|" -> IF p + q > 0 THEN 1 ELSE 0
                      [] symbol = "&" -> IF p + q = 2 THEN 1 ELSE 0
                      [] symbol = "^" -> IF p + q = 1 THEN 1 ELSE 0
         IN  bit + 2 * Bitwise(symbol, x \div 2, y \div 2)

InvalidOperandError(text) == Raised(Exception("InvalidOperandError", text))

\* _as_integer of both operands, and the operator of Python's int between them
BitwiseOperator(symbol, a, b) ==
    IF a.d = 1 /\ b.d = 1
    THEN Returned(Fraction(Signed(Bitwise(symbol, Unsigned(a.n), Unsigned(b.n))), 1))
    ELSE InvalidOperandError(<<"expected", "an", "integer,", "found", "this:", "%s">>)

NotDefined ==
    InvalidOperandError(<<"binary", "operator", "%r", "is", "not", "defined", "for:",
                          "%s,", "%s">>)

\* the operators of two frozensets
SetOperator(symbol, a, b) ==
    CASE symbol = "|" -> Returned(frozenset(a.e \cup b.e))
      [] symbol = "&" -> Returned(frozenset(a.e \cap b.e))
      [] symbol = "^" -> Returned(frozenset((a.e \ b.e) \cup (b.e \ a.e)))
      [] symbol = "<" -> Returned(bool(a.e \subseteq b.e /\ a.e # b.e))
      [] symbol = ">" -> Returned(bool(b.e \subseteq a.e /\ a.e # b.e))
      [] symbol = "<=" -> Returned(bool(a.e \subseteq b.e))
      [] symbol = ">=" -> Returned(bool(b.e \subseteq a.e))
      [] symbol = "==" -> Returned(bool(a.e = b.e))
      [] symbol = "!=" -> Returned(bool(a.e # b.e))
      [] OTHER -> NotDefined

\* the operators of two bools
BoolOperator(symbol, a, b) ==
    CASE symbol = "||" -> Returned(bool(a.n = 1 \/ b.n = 1))
      [] symbol = "&&" -> Returned(bool(a.n = 1 /\ b.n = 1))
      [] symbol = "==" -> Returned(bool(a.n = b.n))
      [] symbol = "!=" -> Returned(bool(a.n # b.n))
      [] OTHER -> NotDefined

\* the operators of two Fractions
FractionOperator(symbol, a, b) ==
    CASE symbol = "==" -> Returned(bool(a.n * b.d = b.n * a.d))
      [] symbol = ">=" -> Returned(bool(a.n * b.d >= b.n * a.d))
      [] symbol = "<=" -> Returned(bool(a.n * b.d <= b.n * a.d))
      [] symbol = "!=" -> Returned(bool(a.n * b.d # b.n * a.d))
      [] symbol = "<" -> Returned(bool(a.n * b.d < b.n * a.d))
      [] symbol = ">" -> Returned(bool(a.n * b.d > b.n * a.d))
      [] symbol \in {"|", "^", "&"} -> BitwiseOperator(symbol, a, b)
      [] symbol = "+" -> Returned(Fraction(a.n * b.d + b.n * a.d, a.d * b.d))
      [] symbol = "-" -> Returned(Fraction(a.n * b.d - b.n * a.d, a.d * b.d))
      [] symbol = "%" -> Modulo(a, b)
      [] symbol = "*" -> Returned(Fraction(a.n * b.n, a.d * b.d))
      [] symbol = "/" -> TrueDiv(a, b)
      [] symbol = "//" -> FloorDivide(a, b)
      [] symbol = "**" -> Pow(a, b)
      [] OTHER -> NotDefined

\* the operators of two strs
StrOperator(symbol, a, b) ==
    CASE symbol = "+" -> Returned(str(a.s \o b.s))
      [] symbol = "==" -> Returned(bool(a.s = b.s))
      [] symbol = "!=" -> Returned(bool(a.s # b.s))
      [] OTHER -> NotDefined

\* the outcome of a set comprehension over the outcomes of its elements: the
\* frozenset of the values, or the exception of the element iterated first
\* among those that raise (the order of iteration is the build's choice)
Comprehension(outcomes) ==
    IF \E o \in outcomes : o.exc # None
    THEN {o \in outcomes : o.exc # None}
    ELSE {Returned(frozenset({TheValue(o.value) : o \in outcomes}))}

RECURSIVE _apply_binary_operator(_, _, _)

\* an expansion over the right operand that hands the operands over swapped
_apply_binary_operator_swapped(operator_symbol, left, right) ==
    IF left.kind = "frozenset" /\ right.kind = "frozenset"
    THEN {SetOperator(operator_symbol, left, right)}
    ELSE IF left.kind = "bool" /\ right.kind = "bool"
    THEN {BoolOperator(operator_symbol, left, right)}
    ELSE IF left.kind = "Fraction" /\ right.kind = "Fraction"
    THEN {FractionOperator(operator_symbol, left, right)}
    ELSE IF left.kind = "str" /\ right.kind = "str"
    THEN {StrOperator(operator_symbol, left, right)}
    ELSE IF left.kind = "frozenset"
    THEN Comprehension(UNION {_apply_binary_operator(operator_symbol, x, right) :
                                 x \in left.e})
    ELSE IF right.kind = "frozenset"
    THEN Comprehension(UNION {_apply_binary_operator(operator_symbol, x, left) :
                                 x \in right.e})
    ELSE {NotDefined}

\* _apply_binary_operator: the outcomes the call can have, each a value returned
\* or an exception raised
_apply_binary_operator(operator_symbol, left, right) ==
    IF left.kind = "frozenset" /\ right.kind = "frozenset"
    THEN {SetOperator(operator_symbol, left, right)}
    ELSE IF left.kind = "bool" /\ right.kind = "bool"
    THEN {BoolOperator(operator_symbol, left, right)}
    ELSE IF left.kind = "Fraction" /\ right.kind = "Fraction"
    THEN {FractionOperator(operator_symbol, left, right)}
    ELSE IF left.kind = "str" /\ right.kind = "str"
    THEN {StrOperator(operator_symbol, left, right)}
    ELSE IF left.kind = "frozenset"
    THEN Comprehension(UNION {_apply_binary_operator(operator_symbol, x, right) :
                                 x \in left.e})
    ELSE IF right.kind = "frozenset"
    THEN Comprehension(UNION {_apply_binary_operator(operator_symbol, left, x) :
                                 x \in right.e})
    ELSE {NotDefined}

visit_logical_not_ex(value) ==
    IF value.kind = "bool"
    THEN {Returned(bool(value.n = 0))}
    ELSE {InvalidOperandError(<<"unsupported", "operand", "type", "for", "logical",
                                "not:", "%r">>)}

visit_unary_ex(symbol, rhs) ==
    _apply_binary_operator("*", IF symbol = "+" THEN Fraction(1, 1) ELSE Fraction(-1, 1),
                           rhs)

----------------------------------------------------------------------------
(* Bit-length sets *)

MinkowskiSum(A, B) == {a + b : a \in A, b \in B}

\* the least number of bits that tell n values apart
RECURSIVE BitsFor(_, _)
BitsFor(n, bits) == IF Power(2, bits) >= n THEN bits ELSE BitsFor(n, bits + 1)

\* the length of the tag of a union of n variants
TagBits(n) == BitsFor(IF n > 2 THEN n ELSE 2, 0)

\* the types of the fields among the attributes, padding included, in order
FieldDataTypes(attributes) ==
    LET fields == SelectSeq(attributes, LAMBDA a : a.attribute \in {"Field", "PaddingField"})
    IN  [i \in 1..Len(fields) |-> fields[i].data_type]

RECURSIVE bit_length_values(_)

RECURSIVE compute_bit_length_values_for_struct(_)
compute_bit_length_values_for_struct(member_data_types) ==
    IF member_data_types = <<>>
    THEN {0}
    ELSE MinkowskiSum(compute_bit_length_values_for_struct(Front(member_data_types)),
                      bit_length_values(Last(member_data_types)))

compute_bit_length_values_for_tagged_union(member_data_types) ==
    {TagBits(Len(member_data_types)) + x :
        x \in UNION {bit_length_values(member_data_types[i]) :
                        i \in 1..Len(member_data_types)}}

\* the bit-length set of a data type
bit_length_values(data_type) ==
    CASE data_type.kind = "PrimitiveType" -> {IF data_type.name = "uint8" THEN 8 ELSE 7}
      [] data_type.kind = "VoidType" -> {data_type.bits}
      [] data_type.kind = "DynamicArrayType" ->
            {BitsFor(data_type.max_size + 1, 0) + k * x :
                k \in 0..data_type.max_size,
                x \in bit_length_values(data_type.element_type)}
      [] data_type.kind = "StructureType" ->
            compute_bit_length_values_for_struct(FieldDataTypes(data_type.attributes))
      [] data_type.kind = "UnionType" ->
            compute_bit_length_values_for_tagged_union(FieldDataTypes(data_type.attributes))
      [] data_type.kind = "ServiceType" -> {0}

\* DataStructureBuilder.compute_bit_length_values: the set of the accumulator
compute_bit_length_values(struct) ==
    IF struct.union
    THEN compute_bit_length_values_for_tagged_union(FieldDataTypes(struct.attributes))
    ELSE compute_bit_length_values_for_struct(FieldDataTypes(struct.attributes))

----------------------------------------------------------------------------
(* _TypeBuilder: the handlers, as functions of the builder `self` *)

\* a builder that keeps the whole list the host gave, whatever list it is given
_TypeBuilder_of_host_lookup(definition, lookup_definitions) ==
    [definition |-> definition, lookup_definitions |-> lookup,
     structs |-> <<DataStructureBuilder>>, is_deprecated |-> FALSE, line |-> 0]

\* _TypeBuilder.__init__, with the number of the line read last
_TypeBuilder(definition, lookup_definitions) ==
    [definition |-> definition, lookup_definitions |-> lookup_definitions,
     structs |-> <<DataStructureBuilder>>, is_deprecated |-> FALSE, line |-> 0]

\* a handler returns normally or raises; calls are its print-handler invocations
Done(self) == [self |-> self, exc |-> None, calls |-> <<>>]

Raise(self, e) == [self |-> self, exc |-> Some(e), calls |-> <<>>]

on_constant(self, constant_type, value) ==
    Done([self EXCEPT !.structs = ReplaceLast(@, add_constant(Last(@),
                                                  Constant(constant_type, value)))])

on_field(self, field_type) ==
    Done([self EXCEPT !.structs = ReplaceLast(@, add_field(Last(@), Field(field_type)))])

\* a padding handler that adds nothing
on_padding_field_dropped(self, padding_field_type) == Done(self)

on_padding_field(self, padding_field_type) ==
    Done([self EXCEPT !.structs = ReplaceLast(@, add_field(Last(@),
                                                  PaddingField(padding_field_type)))])

\* a marker handler without the check for a second marker
on_service_response_marker_unchecked(self) ==
    Done([self EXCEPT !.structs = Append(@, DataStructureBuilder)])

on_service_response_marker(self) ==
    IF Len(self.structs) > 1
    THEN Raise(self, Exception("SemanticError",
                               <<"duplicated", "service", "response", "marker">>))
    ELSE Done([self EXCEPT !.structs = Append(@, DataStructureBuilder)])

\* an identifier resolved against the request accumulator in every section
resolve_top_level_identifier_of_request(self, name) ==
    IF name = "_offset_"
    THEN IF compute_bit_length_values(self.structs[1]) = {}
         THEN Raised(Exception("AssertionError", <<>>))
         ELSE Returned(frozenset({Fraction(x, 1) :
                                     x \in compute_bit_length_values(self.structs[1])}))
    ELSE Raised(Exception("UndefinedIdentifierError", <<name>>))

\* _offset_ is the bit-length set of the last accumulator, as a set of rationals
resolve_top_level_identifier(self, name) ==
    IF name = "_offset_"
    THEN IF compute_bit_length_values(Last(self.structs)) = {}
         THEN Raised(Exception("AssertionError", <<>>))
         ELSE Returned(frozenset({Fraction(x, 1) :
                                     x \in compute_bit_length_values(Last(self.structs))}))
    ELSE Raised(Exception("UndefinedIdentifierError", <<name>>))

\* a print handler that counts the lines from zero
_on_print_directive_from_zero(self, line_number, value) ==
    IF configuration_options.print_handler
    THEN [self |-> self, exc |-> None,
          calls |-> <<[definition |-> self.definition, line_number |-> line_number - 1,
                       value |-> value]>>]
    ELSE Done(self)

_on_print_directive(self, line_number, value) ==
    IF configuration_options.print_handler
    THEN [self |-> self, exc |-> None,
          calls |-> <<[definition |-> self.definition, line_number |-> line_number,
                       value |-> value]>>]
    ELSE Done(self)

\* an assert handler that takes any value but false for a pass
_on_assert_directive_lenient(self, line_number, value) ==
    IF value = Some(Boolean(FALSE))
    THEN Raise(self, ExceptionAt("AssertionCheckFailureError",
                                 <<"assertion", "check", "has", "failed">>,
                                 self.definition.file_path, line_number))
    ELSE Done(self)

_on_assert_directive(self, line_number, value) ==
    IF value # None /\ TheValue(value).kind = "boolean"
    THEN IF TheValue(value).native_value # "true"
         THEN Raise(self, ExceptionAt("AssertionCheckFailureError",
                                      <<"assertion", "check", "has", "failed">>,
                                      self.definition.file_path, line_number))
         ELSE Done(self)
    ELSE IF value = None
    THEN Raise(self, Exception("InvalidDirectiveUsageError",
                               <<"assert", "directive", "requires", "an", "expression">>))
    ELSE Raise(self, Exception("InvalidDirectiveUsageError",
                               <<"the", "assertion", "check", "expression", "must", "yield",
                                 "a", "boolean,", "not", TheValue(value).kind>>))

\* a union handler without the check that the accumulator is empty
_on_union_directive_late(self, _ln, value) ==
    IF value # None
    THEN Raise(self, Exception("InvalidDirectiveUsageError",
                               <<"the", "union", "directive", "does", "not", "expect",
                                 "an", "expression">>))
    ELSE IF Last(self.structs).union
    THEN Raise(self, Exception("InvalidDirectiveUsageError",
                               <<"duplicated", "union", "directive">>))
    ELSE Done([self EXCEPT !.structs = ReplaceLast(@, make_union(Last(@)))])

_on_union_directive(self, _ln, value) ==
    IF value # None
    THEN Raise(self, Exception("InvalidDirectiveUsageError",
                               <<"the", "union", "directive", "does", "not", "expect",
                                 "an", "expression">>))
    ELSE IF Last(self.structs).union
    THEN Raise(self, Exception("InvalidDirectiveUsageError",
                               <<"duplicated", "union", "directive">>))
    ELSE IF ~Last(self.structs).empty
    THEN Raise(self, Exception("InvalidDirectiveUsageError",
                               <<"the", "union", "directive", "must", "be", "placed",
                                 "before", "the", "first", "attribute", "definition">>))
    ELSE Done([self EXCEPT !.structs = ReplaceLast(@, make_union(Last(@)))])

\* a deprecated handler without the check for the response section
_on_deprecated_directive_in_response(self, _ln, value) ==
    IF value # None
    THEN Raise(self, Exception("InvalidDirectiveUsageError",
                               <<"the", "deprecated", "directive", "does", "not", "expect",
                                 "an", "expression">>))
    ELSE IF self.is_deprecated
    THEN Raise(self, Exception("InvalidDirectiveUsageError",
                               <<"duplicated", "deprecated", "directive">>))
    ELSE IF ~Last(self.structs).empty
    THEN Raise(self, Exception("InvalidDirectiveUsageError",
                               <<"the", "deprecated", "directive", "must", "be", "placed",
                                 "before", "the", "first", "attribute", "definition">>))
    ELSE Done([self EXCEPT !.is_deprecated = TRUE])

_on_deprecated_directive(self, _ln, value) ==
    IF value # None
    THEN Raise(self, Exception("InvalidDirectiveUsageError",
                               <<"the", "deprecated", "directive", "does", "not", "expect",
                                 "an", "expression">>))
    ELSE IF self.is_deprecated
    THEN Raise(self, Exception("InvalidDirectiveUsageError",
                               <<"duplicated", "deprecated", "directive">>))
    ELSE IF Len(self.structs) > 1
    THEN Raise(self, Exception("InvalidDirectiveUsageError",
                               <<"the", "deprecated", "directive", "cannot", "be", "placed",
                                 "in", "the", "response", "section">>))
    ELSE IF ~Last(self.structs).empty
    THEN Raise(self, Exception("InvalidDirectiveUsageError",
                               <<"the", "deprecated", "directive", "must", "be", "placed",
                                 "before", "the", "first", "attribute", "definition">>))
    ELSE Done([self EXCEPT !.is_deprecated = TRUE])

on_directive(self, line_number, directive_name, associated_expression_value) ==
    CASE directive_name = "print" ->
            _on_print_directive(self, line_number, associated_expression_value)
      [] directive_name = "assert" ->
            _on_assert_directive(self, line_number, associated_expression_value)
      [] directive_name = "union" ->
            _on_union_directive(self, line_number, associated_expression_value)
      [] directive_name = "deprecated" ->
            _on_deprecated_directive(self, line_number, associated_expression_value)
      [] OTHER ->
            Raise(self, Exception("SemanticError",
                                  <<"unknown", "directive", directive_name>>))

\* a port-ID check that asks the validator of subjects for every type
RegulatedPortIDCheckAsSubject(out) ==
    IF /\ ~configuration_options.allow_unregulated_fixed_port_id
       /\ out.fixed_port_id # None
       /\ ~is_valid_regulated_subject_id(TheValue(out.fixed_port_id), root_namespace(out))
    THEN Raised(Exception("InvalidFixedPortIDError", <<"regulated", "port", "id">>))
    ELSE Returned(out)

\* the regulated port-ID check at the end of finalize, on the constructed type
RegulatedPortIDCheck(out) ==
    IF ~configuration_options.allow_unregulated_fixed_port_id
    THEN IF out.fixed_port_id # None
         THEN IF ~(IF out.kind = "ServiceType"
                   THEN is_valid_regulated_service_id(TheValue(out.fixed_port_id),
                                                      root_namespace(out))
                   ELSE is_valid_regulated_subject_id(TheValue(out.fixed_port_id),
                                                      root_namespace(out)))
              THEN Raised(Exception("InvalidFixedPortIDError",
                                    <<"regulated", "port", "id", "%r", "for",
                                      IF out.kind = "ServiceType" THEN "service"
                                                                  ELSE "message",
                                      "type", "%r", "is", "not", "valid.", "consider",
                                      "using", "allow_unregulated_fixed_port_id.">>))
              ELSE Returned(out)
         ELSE Returned(out)
    ELSE Returned(out)

\* a construction that takes the union flag of the request for the response
ConstructResponseAsRequest(self) ==
    IF Len(self.structs) = 1
    THEN IF self.structs[1].union
         THEN UnionType(self.definition.full_name, self.definition.version,
                        self.structs[1].attributes, self.is_deprecated,
                        self.definition.fixed_port_id, self.definition.file_path)
         ELSE StructureType(self.definition.full_name, self.definition.version,
                            self.structs[1].attributes, self.is_deprecated,
                            self.definition.fixed_port_id, self.definition.file_path)
    ELSE ServiceType(self.definition.full_name, self.definition.version,
                     self.structs[1].attributes, self.structs[2].attributes,
                     self.structs[1].union, self.structs[1].union, self.is_deprecated,
                     self.definition.fixed_port_id, self.definition.file_path)

\* the construction of the compound type at the beginning of finalize
Construct(self) ==
    IF Len(self.structs) = 1
    THEN IF self.structs[1].union
         THEN UnionType(self.definition.full_name, self.definition.version,
                        self.structs[1].attributes, self.is_deprecated,
                        self.definition.fixed_port_id, self.definition.file_path)
         ELSE StructureType(self.definition.full_name, self.definition.version,
                            self.structs[1].attributes, self.is_deprecated,
                            self.definition.fixed_port_id, self.definition.file_path)
    ELSE ServiceType(self.definition.full_name, self.definition.version,
                     self.structs[1].attributes, self.structs[2].attributes,
                     self.structs[1].union, self.structs[2].union, self.is_deprecated,
                     self.definition.fixed_port_id, self.definition.file_path)

finalize(self) ==
    IF Construct(self).exc # None
    THEN Construct(self)
    ELSE RegulatedPortIDCheck(TheValue(Construct(self).value))

----------------------------------------------------------------------------
(* The cross-file resolver and parse_definition *)

\* Version equality between a definition's version and a requested one, whose
\* minor is None when the reference omits it: None equals no minor number
VersionEquals(definition_version, version) ==
    /\ definition_version.major = version.major
    /\ Some(definition_version.minor) = version.minor

\* a parse_definition that leaves the target in the lookup list
parse_definition_keeping_target(definition, lookup_definitions) ==
    _TypeBuilder(definition, lookup_definitions)

\* the first lines of parse_definition: the target is removed from the lookup
\* list, and a builder is made for it
parse_definition(definition, lookup_definitions) ==
    _TypeBuilder(definition, SelectSeq(lookup_definitions, LAMBDA d : d # definition))

\* the full name a reference stands for: a name of one component is relative
ReferredFullName(self, name) ==
    IF Len(name) > 1 THEN name ELSE full_namespace(self.definition) \o name

\* the lookup definitions of that full name and version
Found(self, name, version) ==
    SelectSeq(self.lookup_definitions,
              LAMBDA d : /\ d.full_name = ReferredFullName(self, name)
                         /\ VersionEquals(d.version, version))

\* a resolver that takes the first of several definitions found
resolve_versioned_data_type_first(self, name, version) ==
    IF Found(self, name, version) = <<>>
    THEN [exc |-> Some(Exception("UndefinedDataTypeError",
                                 <<"data", "type", "%r", "version", "%r", "could", "be",
                                   "found">>)),
          callee |-> None]
    ELSE [exc |-> None,
          callee |-> Some(parse_definition(Found(self, name, version)[1],
                                           self.lookup_definitions))]

\* resolve_versioned_data_type up to its call of parse_definition: it raises, or
\* yields the builder of the nested parse_definition (callee)
resolve_versioned_data_type(self, name, version) ==
    IF Found(self, name, version) = <<>>
    THEN [exc |-> Some(Exception("UndefinedDataTypeError",
                                 <<"data", "type", "%r", "version", "%r", "could", "be",
                                   "found">>)),
          callee |-> None]
    ELSE IF Len(Found(self, name, version)) > 1
    THEN [exc |-> Some(Exception("InternalError", <<"conflicting", "definitions:", "%r">>)),
          callee |-> None]
    ELSE [exc |-> None,
          callee |-> Some(parse_definition(Found(self, name, version)[1],
                                           self.lookup_definitions))]

FrontendErrors ==
    {"DSDLSyntaxError", "SemanticError", "UndefinedDataTypeError",
     "AssertionCheckFailureError", "UndefinedIdentifierError",
     "InvalidDirectiveUsageError", "InvalidFixedPortIDError", "InternalError"}

set_error_location_if_unknown(e, path) ==
    [e EXCEPT !.path = IF @ = None THEN Some(path) ELSE @]

\* except clauses that stamp every error with the path of the definition left
ExceptRestamping(definition, e) ==
    IF e.type = "ParseError"
    THEN [type |-> "DSDLSyntaxError", text |-> <<"syntax", "error">>,
          path |-> Some(definition.file_path), line |-> e.line]
    ELSE IF e.type = "TypeParameterError"
    THEN [type |-> "SemanticError", text |-> e.text,
          path |-> Some(definition.file_path), line |-> None]
    ELSE IF e.type \in FrontendErrors
    THEN [e EXCEPT !.path = Some(definition.file_path)]
    ELSE [type |-> "InternalError", text |-> e.text,
          path |-> Some(definition.file_path), line |-> None]

\* the except clauses of parse_definition, applied to an exception leaving it
Except(definition, e) ==
    IF e.type = "ParseError"
    THEN [type |-> "DSDLSyntaxError", text |-> <<"syntax", "error">>,
          path |-> Some(definition.file_path), line |-> e.line]
    ELSE IF e.type = "TypeParameterError"
    THEN [type |-> "SemanticError", text |-> e.text,
          path |-> Some(definition.file_path), line |-> None]
    ELSE IF e.type \in FrontendErrors
    THEN set_error_location_if_unknown(e, definition.file_path)
    ELSE [type |-> "InternalError", text |-> e.text,
          path |-> Some(definition.file_path), line |-> None]

----------------------------------------------------------------------------
(* The state machine *)

Op(op, directive, value, name, version) ==
    [op |-> op, directive |-> directive, value |-> value, name |-> name,
     version |-> version]

Idle == [state |-> "idle", out |-> None, error |-> None]

\* no constant expression is under evaluation
NoEvaluation ==
    [state |-> "idle", form |-> "", operator_symbol |-> "", operands |-> <<>>,
     outcome |-> None]

ConfigurationOptions ==
    [print_handler : BOOLEAN, allow_unregulated_fixed_port_id : BOOLEAN,
     skip_assertion_checks : BOOLEAN]

\* the builder of the innermost active parse_definition
Top == Last(stack)

\* a further statement can be read from the file of the innermost invocation
CanRead ==
    /\ stack # <<>>
    /\ exc = None
    /\ Top.line < MaxLine
    /\ steps < MaxSteps

\* the top-level call of parse_definition
Call ==
    /\ stack = <<>>
    /\ result.state = "idle"
    /\ exc = None
    /\ stack' = <<parse_definition(target, lookup)>>
    /\ last' = Op("parse_definition", "", None, <<>>, None)
    /\ parsed' = Append(parsed, target)
    /\ UNCHANGED <<configuration_options, target, lookup, exc, result, printed, steps,
                   evaluation>>

\* the effect of one handler call on the innermost invocation
Handle(res, op) ==
    /\ stack' = ReplaceLast(stack, [res.self EXCEPT !.line = Top.line + 1])
    /\ exc' = res.exc
    /\ printed' = printed \o res.calls
    /\ steps' = steps + 1
    /\ last' = op
    /\ UNCHANGED <<configuration_options, target, lookup, result, parsed, evaluation>>

OnConstant ==
    /\ CanRead
    /\ Handle(on_constant(Top, PrimitiveType("uint8"), Rational(1)),
              Op("on_constant", "", None, <<>>, None))

OnField ==
    /\ CanRead
    /\ \E field_type \in FieldTypes :
          Handle(on_field(Top, field_type), Op("on_field", "", None, <<>>, None))

OnPaddingField ==
    /\ CanRead
    /\ Handle(on_padding_field(Top, VoidType(8)),
              Op("on_padding_field", "", None, <<>>, None))

\* the directives read: every name with every kind of value, print with two
DirectiveInputs ==
    ({"assert", "union", "deprecated", "sho_tse_take"} \X DirectiveValues)
        \cup ({"print"} \X {None, Some(Rational(1))})

OnDirective ==
    /\ CanRead
    /\ \E d \in DirectiveInputs :
          Handle(on_directive(Top, Top.line + 1, d[1], d[2]),
                 Op("on_directive", d[1], d[2], <<>>, None))

\* the text of an assertion that the named set holds multiples of 8 only
AlignmentCheck(name) == <<name, "%", "8", "==", "{0}">>

\* the identifiers read in expressions
Identifiers == {"_offset_", "_size_"}

\* an assert directive over an identifier: the identifier is resolved, the
\* expression is evaluated and its value is given to the handler
OnDirectiveOfIdentifier ==
    /\ CanRead
    /\ \E name \in Identifiers :
          LET identifier == resolve_top_level_identifier(Top, name)
          IN  IF identifier.exc # None
              THEN Handle(Raise(Top, TheValue(identifier.exc)),
                          Op("resolve_top_level_identifier", "", None,
                             AlignmentCheck(name), None))
              ELSE \E remainder \in _apply_binary_operator("%", TheValue(identifier.value),
                                                           Fraction(8, 1)) :
                   \E equal \in _apply_binary_operator("==", TheValue(remainder.value),
                                                       frozenset({Fraction(0, 1)})) :
                      Handle(on_directive(Top, Top.line + 1, "assert",
                                          Some(Boolean(TheValue(equal.value).n = 1))),
                             Op("on_directive", "assert",
                                Some(Boolean(TheValue(equal.value).n = 1)),
                                AlignmentCheck(name), None))

OnServiceResponseMarker ==
    /\ CanRead
    /\ Handle(on_service_response_marker(Top),
              Op("on_service_response_marker", "", None, <<>>, None))

\* what open() and the grammar raise before any statement reaches the builder:
\* the file cannot be opened, or its text has a syntax error at line 1 or 2
ParseFailures ==
    {[type |-> "FileNotFoundError", text |-> <<"no", "such", "file", "or", "directory">>,
      path |-> None, line |-> None]}
    \cup {[type |-> "ParseError", text |-> <<"rule", "did", "not", "match">>,
            path |-> None, line |-> Some(n)] : n \in {1, 2}}

\* the file of the innermost invocation is opened and its text parsed, in vain
ParseFails ==
    /\ stack # <<>>
    /\ exc = None
    /\ Top.line = 0
    /\ \E e \in ParseFailures : exc' = Some(e)
    /\ last' = Op("parse", "", None, <<>>, None)
    /\ UNCHANGED <<configuration_options, target, lookup, stack, result, printed, steps,
                   parsed, evaluation>>

\* the end of the file of the innermost invocation: finalize, and the return of
\* parse_definition, to the host or into the field that referred to the type
Finalize ==
    /\ stack # <<>>
    /\ exc = None
    /\ last' = Op("finalize", "", None, <<>>, None)
    /\ IF finalize(Top).exc # None
       THEN /\ exc' = finalize(Top).exc
            /\ UNCHANGED <<stack, result>>
       ELSE /\ exc' = None
            /\ IF Len(stack) = 1
               THEN /\ stack' = <<>>
                    /\ result' = [state |-> "returned", out |-> finalize(Top).value,
                                  error |-> None]
               ELSE /\ stack' = ReplaceLast(Front(stack),
                                    on_field(stack[Len(stack) - 1],
                                             TheValue(finalize(Top).value)).self)
                    /\ UNCHANGED result
    /\ UNCHANGED <<configuration_options, target, lookup, printed, steps, parsed,
                   evaluation>>

\* an exception leaves the innermost parse_definition
Unwind ==
    /\ stack # <<>>
    /\ exc # None
    /\ exc' = Some(Except(Top.definition, TheValue(exc)))
    /\ stack' = Front(stack)
    /\ result' = IF Len(stack) = 1
                 THEN [state |-> "raised", out |-> None, error |-> exc']
                 ELSE result
    /\ last' = Op("except", "", None, <<>>, None)
    /\ UNCHANGED <<configuration_options, target, lookup, printed, steps, parsed,
                   evaluation>>

Init ==
    /\ configuration_options \in ConfigurationOptions
    /\ target \in StandaloneDefinitions
    /\ lookup = <<>>
    /\ stack = <<>>
    /\ exc = None
    /\ result = Idle
    /\ printed = <<>>
    /\ steps = 0
    /\ last = Op("", "", None, <<>>, None)
    /\ parsed = <<>>
    /\ evaluation = NoEvaluation

Next ==
    \/ Call
    \/ OnConstant
    \/ OnField
    \/ OnPaddingField
    \/ OnDirective
    \/ OnDirectiveOfIdentifier
    \/ OnServiceResponseMarker
    \/ ParseFails
    \/ Finalize
    \/ Unwind

\* standalone definitions: files of primitive attributes, directives and markers
Spec == Init /\ [][Next]_vars

----------------------------------------------------------------------------
(* Definitions that refer to each other *)

\* a library with two minors of one major, a second major, a second file of
\* the same name and version, and a type of the same short name elsewhere
PeerDefinitions ==
    <<DSDLDefinition("ns/T.1.0.uavcan", <<"ns", "T">>, Version(1, 0), None),
      DSDLDefinition("ns/T.1.1.uavcan", <<"ns", "T">>, Version(1, 1), None),
      DSDLDefinition("lib/ns/T.1.1.uavcan", <<"ns", "T">>, Version(1, 1), None),
      DSDLDefinition("ns/T.2.0.uavcan", <<"ns", "T">>, Version(2, 0), None),
      DSDLDefinition("other/T.1.0.uavcan", <<"other", "T">>, Version(1, 0), None)>>

\* the list of the peers at the positions in S, in the order of the library
LookupOf(S) ==
    LET positions == SelectSeq([i \in 1..Len(PeerDefinitions) |-> i], LAMBDA i : i \in S)
    IN  [k \in 1..Len(positions) |-> PeerDefinitions[positions[k]]]

\* the references read: absolute and relative names, the minor given or omitted
ReferenceNames == {<<"T">>, <<"ns", "T">>, <<"other", "T">>}

ReferenceVersions ==
    {Version(major, minor) : major \in {1, 2}, minor \in {None, Some(0), Some(1)}}

\* a field of a composite type: the reference is resolved, and the referred
\* definition is parsed by a nested parse_definition
ResolveVersionedDataType ==
    /\ CanRead
    /\ \E name \in ReferenceNames, version \in ReferenceVersions :
          LET r == resolve_versioned_data_type(Top, name, version)
              caller == [Top EXCEPT !.line = @ + 1]
          IN  /\ exc' = r.exc
              /\ stack' = IF r.exc # None
                          THEN ReplaceLast(stack, caller)
                          ELSE Append(ReplaceLast(stack, caller), TheValue(r.callee))
              /\ last' = Op("resolve_versioned_data_type", "", None, name, Some(version))
              /\ parsed' = IF r.exc # None
                           THEN parsed
                           ELSE Append(parsed, TheValue(r.callee).definition)
    /\ steps' = steps + 1
    /\ UNCHANGED <<configuration_options, target, lookup, result, printed, evaluation>>

\* ConfigurationOptions.__init__
DefaultConfigurationOptions ==
    [print_handler |-> FALSE, allow_unregulated_fixed_port_id |-> FALSE,
     skip_assertion_checks |-> FALSE]

InitResolve ==
    /\ configuration_options = DefaultConfigurationOptions
    /\ target \in {PeerDefinitions[i] : i \in 1..Len(PeerDefinitions)}
    /\ lookup \in {LookupOf(S) : S \in SUBSET (1..Len(PeerDefinitions))}
    /\ stack = <<>>
    /\ exc = None
    /\ result = Idle
    /\ printed = <<>>
    /\ steps = 0
    /\ last = Op("", "", None, <<>>, None)
    /\ parsed = <<>>
    /\ evaluation = NoEvaluation

NextResolve ==
    \/ Call
    \/ ResolveVersionedDataType
    \/ ParseFails
    \/ Finalize
    \/ Unwind

\* definitions whose files are made of fields of composite types
SpecResolve == InitResolve /\ [][NextResolve]_vars

\* the longest lookup list of a parse that is run to its end: short enough for
\* the nesting to use up the list within the statements of one run
MaxLookup == 2

\* the targets of such a parse: a definition that is the only one of its full
\* name and version, and one of the two files that share theirs (the other
\* peers are as these two, up to their names)
TerminateTargets == {PeerDefinitions[1], PeerDefinitions[2]}

InitTerminate ==
    /\ InitResolve
    /\ target \in TerminateTargets
    /\ Len(lookup) <= MaxLookup

\* the same definitions, run to the end: parse_definition is one synchronous
\* call, which takes its next step as long as it has one
SpecTerminate == InitTerminate /\ [][NextResolve]_vars /\ WF_vars(NextResolve)

----------------------------------------------------------------------------
(* The evaluation of one constant expression *)

\* the binary operators of the grammar
BinaryOperators ==
    {"||", "&&", "==", "!=", "<", ">", "<=", ">=", "|", "^", "&",
     "+", "-", "%", "*", "/", "//", "**"}

Bools == {bool(TRUE), bool(FALSE)}

Fractions == {Fraction(-1, 1), Fraction(0, 1), Fraction(1, 1), Fraction(2, 1), Fraction(1, 2)}

Strs == {str(""), str("a")}

\* sets, one of them nested; none holds a bool next to the Fraction 0 or 1, which
\* Python takes for equal elements
Frozensets ==
    {frozenset({}), frozenset({Fraction(0, 1)}), frozenset({Fraction(-1, 1), Fraction(2, 1)}),
     frozenset({bool(TRUE)}), frozenset({Fraction(1, 2), str("a")}),
     frozenset({frozenset({Fraction(2, 1)}), Fraction(-1, 1)})}

ExpressionValues == Bools \cup Fractions \cup Strs \cup Frozensets

Pending(form, operator_symbol, operands) ==
    [state |-> "pending", form |-> form, operator_symbol |-> operator_symbol,
     operands |-> operands, outcome |-> None]

\* one operator and its operands, already evaluated
Expressions ==
    {Pending("binary", symbol, <<left, right>>) :
        symbol \in BinaryOperators, left \in ExpressionValues, right \in ExpressionValues}
    \cup {Pending("unary", symbol, <<rhs>>) : symbol \in {"+", "-"}, rhs \in ExpressionValues}
    \cup {Pending("logical_not", "!", <<value>>) : value \in ExpressionValues}

Evaluated(outcome) ==
    /\ evaluation' = [evaluation EXCEPT !.state = "done", !.outcome = Some(outcome)]
    /\ UNCHANGED <<configuration_options, target, lookup, stack, exc, result, printed,
                   steps, last, parsed>>

\* one step of _visit_binary_operator_chain, or visit_power_ex
ApplyBinaryOperator ==
    /\ evaluation.state = "pending"
    /\ evaluation.form = "binary"
    /\ \E outcome \in _apply_binary_operator(evaluation.operator_symbol,
                                              evaluation.operands[1],
                                              evaluation.operands[2]) :
          Evaluated(outcome)

VisitUnaryEx ==
    /\ evaluation.state = "pending"
    /\ evaluation.form = "unary"
    /\ \E outcome \in visit_unary_ex(evaluation.operator_symbol, evaluation.operands[1]) :
          Evaluated(outcome)

VisitLogicalNotEx ==
    /\ evaluation.state = "pending"
    /\ evaluation.form = "logical_not"
    /\ \E outcome \in visit_logical_not_ex(evaluation.operands[1]) :
          Evaluated(outcome)

InitEvaluate ==
    /\ configuration_options = DefaultConfigurationOptions
    /\ target = PeerDefinitions[1]
    /\ lookup = <<>>
    /\ stack = <<>>
    /\ exc = None
    /\ result = Idle
    /\ printed = <<>>
    /\ steps = 0
    /\ last = Op("", "", None, <<>>, None)
    /\ parsed = <<>>
    /\ evaluation \in Expressions

NextEvaluate ==
    \/ ApplyBinaryOperator
    \/ VisitUnaryEx
    \/ VisitLogicalNotEx

\* constant expressions of one operator
SpecEvaluate == InitEvaluate /\ [][NextEvaluate]_vars

----------------------------------------------------------------------------
(* Claims about the resolver *)

Elements(s) == {s[i] : i \in 1..Len(s)}

\* the latest step resolved a reference
AfterResolve == last.op = "resolve_versioned_data_type"

\* the builder that resolved it: the innermost one if the resolution raised, the
\* caller of the innermost one if a nested parse_definition was entered
Resolver == IF exc # None THEN Top ELSE stack[Len(stack) - 1]

\* the lookup definitions of the resolver with the referred full name and major
SameMajor(self, name, version) ==
    {d \in Elements(self.lookup_definitions) :
        /\ d.full_name = ReferredFullName(self, name)
        /\ d.version.major = version.major}

\* C1: version selection is monotone. With an exact (major, minor) requested,
\* adding a peer of the same full name and major with a higher minor changes
\* neither the peer resolved nor the failure; with the minor omitted, the peer
\* with the highest minor among those of the requested full name and major is
\* the one resolved (the candidates being of distinct versions).
C1_VersionSelectionMonotone ==
    AfterResolve =>
        LET self == Resolver
            name == last.name
            version == TheValue(last.version)
            same == SameMajor(self, name, version)
        IN  IF version.minor = None
            THEN (/\ same # {}
                  /\ \A c, d \in same : c.version = d.version => c = d)
                 => /\ exc = None
                    /\ Top.definition \in same
                    /\ \A d \in same : d.version.minor <= Top.definition.version.minor
            ELSE \A p \in Elements(PeerDefinitions) :
                    (/\ p.full_name = ReferredFullName(self, name)
                     /\ p.version.major = version.major
                     /\ p.version.minor > TheValue(version.minor))
                    => LET more == [self EXCEPT !.lookup_definitions = Append(@, p)]
                           r == resolve_versioned_data_type(more, name, version)
                       IN  /\ (r.exc = None) = (exc = None)
                           /\ exc # None => r.exc = exc
                           /\ exc = None => TheValue(r.callee).definition = Top.definition

\* C2: a reference that cannot be resolved fails with UndefinedDataTypeError,
\* which says "no suitable major version" if no peer of the requested full name
\* has the requested major, and "no suitable minor version" if some peer has the
\* major but the minor requested explicitly is absent.
C2_UndefinedDataTypeCause ==
    (AfterResolve /\ exc # None /\ TheValue(last.version).minor # None
                  /\ Found(Top, last.name, TheValue(last.version)) = <<>>)
    => /\ TheValue(exc).type = "UndefinedDataTypeError"
       /\ IF SameMajor(Top, last.name, TheValue(last.version)) = {}
          THEN Says(TheValue(exc), <<"no", "suitable", "major", "version">>)
          ELSE Says(TheValue(exc), <<"no", "suitable", "minor", "version">>)

\* the latest step resolved a reference to the resolving definition's own full
\* name and version
SelfReference ==
    /\ AfterResolve
    /\ ReferredFullName(Resolver, last.name) = Resolver.definition.full_name
    /\ VersionEquals(Resolver.definition.version, TheValue(last.version))

\* another lookup definition has the full name and version of the resolving one
Homonyms(self) ==
    {d \in Elements(self.lookup_definitions) :
        /\ d.full_name = self.definition.full_name
        /\ d.version = self.definition.version}

\* C3 as stated: a reference of a definition to its own full name and version
\* always fails with UndefinedDataTypeError.
C3_SelfReferenceAlwaysUndefined ==
    SelfReference => /\ exc # None
                     /\ TheValue(exc).type = "UndefinedDataTypeError"

\* C3, amended: no parse_definition has its own definition in its lookup list,
\* no definition is parsed inside its own parse_definition, and a reference of
\* a definition to its own full name and version fails with
\* UndefinedDataTypeError unless another lookup definition has that full name
\* and version.
C3_NoSelfRecursion ==
    /\ \A i \in 1..Len(stack) :
          /\ stack[i].definition \notin Elements(stack[i].lookup_definitions)
          /\ \A j \in 1..Len(stack) : stack[i].definition = stack[j].definition => i = j
    /\ (SelfReference /\ Homonyms(Resolver) = {})
       => /\ exc # None
          /\ TheValue(exc).type = "UndefinedDataTypeError"

\* a definition listed in its own lookup list referred to itself, and failed
C3_Witness ==
    /\ SelfReference
    /\ Len(stack) = 1
    /\ target \in Elements(lookup)
    /\ exc # None
    /\ TheValue(exc).type = "UndefinedDataTypeError"

----------------------------------------------------------------------------
(* Claims about finalize and the statement handlers *)

AfterFinalize == last.op = "finalize"

\* the exception in flight is of the given type
Raising(type) == exc # None /\ TheValue(exc).type = type

\* C4: with allow_unregulated_fixed_port_id set, finalize never raises
\* InvalidFixedPortIDError; with it clear, finalize, having constructed the type,
\* raises InvalidFixedPortIDError if and only if a fixed port-ID is present and
\* the validator (of services for a Service, of subjects otherwise) returns
\* false for the port-ID and the root namespace.
C4_RegulatedPortIDCheck ==
    AfterFinalize =>
        LET definition == IF exc # None THEN Top.definition ELSE target
            is_service == IF exc # None THEN Len(Top.structs) = 2
                          ELSE TheValue(result.out).kind = "ServiceType"
            port_id == definition.fixed_port_id
            valid == IF is_service
                     THEN is_valid_regulated_service_id(TheValue(port_id),
                                                        definition.full_name[1])
                     ELSE is_valid_regulated_subject_id(TheValue(port_id),
                                                        definition.full_name[1])
        IN  /\ configuration_options.allow_unregulated_fixed_port_id
               => ~Raising("InvalidFixedPortIDError")
            /\ (/\ ~configuration_options.allow_unregulated_fixed_port_id
                /\ ~Raising("TypeParameterError"))
               => (Raising("InvalidFixedPortIDError") <=> (port_id # None /\ ~valid))

\* finalize refused a service whose port-ID is a valid subject-ID
C4_Witness ==
    /\ AfterFinalize
    /\ Raising("InvalidFixedPortIDError")
    /\ Len(Top.structs) = 2
    /\ Top.definition.fixed_port_id = Some(58000)

\* the step is a directive of the given name
DirectiveStep(name) == last'.op = "on_directive" /\ last'.directive = name

\* the step is taken inside the innermost parse_definition, which stays active
InPlace == stack # <<>> /\ Len(stack') = Len(stack)

InvalidDirectiveUsage(e) == e # None /\ TheValue(e).type = "InvalidDirectiveUsageError"

\* C5: a builder holds one or two accumulators. The first response marker
\* appends a fresh, empty, non-union accumulator; after it every attribute is
\* added to the response accumulator and no step changes the request
\* accumulator; a second marker raises SemanticError ("service response marker")
\* and adds no accumulator.
C5_Accumulators ==
    /\ [](\A i \in 1..Len(stack) : Len(stack[i].structs) \in {1, 2})
    /\ [][InPlace =>
            /\ last'.op = "on_service_response_marker"
               => IF Len(Top.structs) = 1
                  THEN /\ exc' = None
                       /\ Top'.structs = Append(Top.structs, [attributes |-> <<>>,
                                                              union |-> FALSE,
                                                              empty |-> TRUE])
                  ELSE /\ exc' # None
                       /\ TheValue(exc').type = "SemanticError"
                       /\ Says(TheValue(exc'), <<"service", "response", "marker">>)
                       /\ Top'.structs = Top.structs
            /\ Len(Top.structs) = 2
               => /\ Len(Top'.structs) = 2
                  /\ Top'.structs[1] = Top.structs[1]
            /\ (/\ Len(Top.structs) = 2
                /\ last'.op \in {"on_constant", "on_field", "on_padding_field"})
               => /\ Len(Top'.structs[2].attributes) = Len(Top.structs[2].attributes) + 1
                  /\ ~Top'.structs[2].empty
            /\ (/\ Len(Top.structs) = 2
                /\ DirectiveStep("union")
                /\ exc' = None)
               => Top'.structs[2].union
         ]_vars

\* a second response marker was refused after an attribute of the response
C5_Witness ==
    /\ last.op = "on_service_response_marker"
    /\ Raising("SemanticError")
    /\ Len(Top.structs) = 2
    /\ Top.structs[2].attributes # <<>>

\* C6: the deprecated directive is accepted only without an expression, when not
\* yet set, in the request accumulator and while that accumulator is empty;
\* otherwise it raises InvalidDirectiveUsageError and leaves the deprecated flag
\* as it was; once set, the flag stays set and the finalised type carries it.
C6_DeprecatedDirective ==
    [][/\ DirectiveStep("deprecated")
          => IF /\ last'.value = None
                /\ ~Top.is_deprecated
                /\ Len(Top.structs) = 1
                /\ Top.structs[1].empty
             THEN /\ exc' = None
                  /\ Top'.is_deprecated
             ELSE /\ InvalidDirectiveUsage(exc')
                  /\ Top'.is_deprecated = Top.is_deprecated
       /\ \A i \in 1..Len(stack) :
             (i <= Len(stack') /\ stack[i].is_deprecated) => stack'[i].is_deprecated
       /\ (last'.op = "finalize" /\ exc' = None /\ stack' = <<>>)
          => TheValue(result'.out).deprecated = Top.is_deprecated
      ]_vars

\* a definition marked deprecated before its first attribute was finalised
C6_Witness ==
    /\ result.state = "returned"
    /\ TheValue(result.out).kind = "StructureType"
    /\ TheValue(result.out).deprecated
    /\ TheValue(result.out).attributes # <<>>

\* C7: the union directive is accepted only without an expression, on an
\* accumulator that is empty and not yet a union; otherwise it raises
\* InvalidDirectiveUsageError and leaves the accumulators as they were. The flag
\* belongs to the accumulator: the response accumulator starts as a non-union
\* whatever the request is, and may be made a union by its own directive.
C7_UnionDirective ==
    [][/\ DirectiveStep("union")
          => IF /\ last'.value = None
                /\ ~Last(Top.structs).union
                /\ Last(Top.structs).empty
             THEN /\ exc' = None
                  /\ Top'.structs = ReplaceLast(Top.structs,
                                        [Last(Top.structs) EXCEPT !.union = TRUE])
             ELSE /\ InvalidDirectiveUsage(exc')
                  /\ Top'.structs = Top.structs
       /\ (last'.op = "on_service_response_marker" /\ exc' = None)
          => /\ ~Last(Top'.structs).union
             /\ Top'.structs[1].union = Top.structs[1].union
      ]_vars

\* the response of a service whose request is a union was made a union itself
C7_Witness ==
    /\ last.op = "on_directive"
    /\ last.directive = "union"
    /\ exc = None
    /\ Len(Top.structs) = 2
    /\ Top.structs[1].union
    /\ Top.structs[2].union

\* C8: the assert directive on true changes nothing of the builder and parsing
\* goes on; on false it raises AssertionCheckFailureError with the path of the
\* definition and the line of the directive; without an expression or on a
\* rational, a string or a set it raises InvalidDirectiveUsageError.
C8_AssertDirective ==
    [][DirectiveStep("assert")
          => IF last'.value = Some(Boolean(TRUE))
             THEN /\ exc' = None
                  /\ stack' = ReplaceLast(stack, [Top EXCEPT !.line = @ + 1])
                  /\ printed' = printed
                  /\ result' = result
             ELSE IF last'.value = Some(Boolean(FALSE))
             THEN /\ exc' # None
                  /\ TheValue(exc').type = "AssertionCheckFailureError"
                  /\ TheValue(exc').path = Some(Top.definition.file_path)
                  /\ TheValue(exc').line = Some(Top.line + 1)
             ELSE /\ InvalidDirectiveUsage(exc')
                  /\ \/ last'.value = None
                     \/ TheValue(last'.value).kind \in {"rational", "string", "set"}
      ]_vars

\* an assertion on the second line of a definition failed
C8_Witness ==
    /\ last.op = "on_directive"
    /\ last.directive = "assert"
    /\ last.value = Some(Boolean(FALSE))
    /\ Raising("AssertionCheckFailureError")
    /\ TheValue(exc).line = Some(2)

\* C9: with skip_assertion_checks set, an assert directive on false raises
\* nothing.
C9_SkipAssertionChecks ==
    (/\ last.op = "on_directive"
     /\ last.directive = "assert"
     /\ last.value = Some(Boolean(FALSE))
     /\ configuration_options.skip_assertion_checks)
    => exc = None

\* C10: the print directive calls the configured print handler once, with the
\* definition, the line of the directive counted from one and the value or
\* None, calls nothing when no handler is configured, raises nothing and leaves
\* the accumulators, their flags and the deprecated flag as they were; the
\* union and deprecated directives are accepted after it as they are before.
C10_PrintDirective ==
    [][/\ DirectiveStep("print")
          => /\ exc' = None
             /\ stack' = ReplaceLast(stack, [Top EXCEPT !.line = @ + 1])
             /\ result' = result
             /\ printed' = IF configuration_options.print_handler
                           THEN Append(printed, [definition |-> Top.definition,
                                                 line_number |-> Top.line + 1,
                                                 value |-> last'.value])
                           ELSE printed
       /\ (/\ last.op = "on_directive"
           /\ last.directive = "print"
           /\ Top.line = 1
           /\ last'.op = "on_directive"
           /\ last'.directive \in {"union", "deprecated"}
           /\ last'.value = None)
          => exc' = None
      ]_vars

\* the deprecated directive was accepted after a print directive that called
\* the handler
C10_Witness ==
    /\ last.op = "on_directive"
    /\ last.directive = "deprecated"
    /\ exc = None
    /\ Top.is_deprecated
    /\ Top.line = 2
    /\ Len(printed) = 1
    /\ printed[1].line_number = 1

----------------------------------------------------------------------------
(* Claims about the errors that leave parse_definition *)

\* C11: every error that leaves a parse_definition is a FrontendError with its
\* path set. An error that has a path keeps its type, path and line through
\* every enclosing parse_definition; an error without a path gets the path of
\* the definition whose parse_definition it leaves first.
C11_ErrorLocation ==
    /\ [](result.state = "raised"
            => /\ TheValue(result.error).type \in FrontendErrors
               /\ TheValue(result.error).path # None)
    /\ [][last'.op = "except"
            => /\ TheValue(exc').type \in FrontendErrors
               /\ TheValue(exc').path # None
               /\ TheValue(exc).path # None => exc' = exc
               /\ TheValue(exc).path = None
                  => TheValue(exc').path = Some(Top.definition.file_path)
         ]_vars

\* a syntax error in a peer reached the host with the peer's path and its line
C11_Witness ==
    /\ result.state = "raised"
    /\ Len(parsed) = 2
    /\ TheValue(result.error).type = "DSDLSyntaxError"
    /\ TheValue(result.error).path = Some(parsed[2].file_path)
    /\ TheValue(result.error).path # Some(target.file_path)
    /\ TheValue(result.error).line = Some(2)

----------------------------------------------------------------------------
(* Claims about the evaluation of constant expressions *)

\* a binary operator has been applied
AppliedBinary == evaluation.state = "done" /\ evaluation.form = "binary"

TheOutcome == TheValue(evaluation.outcome)

RaisedOnly(outcome, type) == outcome.exc # None /\ TheValue(outcome.exc).type = type

IsSetOf(value, kind) ==
    /\ value.kind = "frozenset"
    /\ value.e # {}
    /\ \A x \in value.e : x.kind = kind

\* C12: a / 0, a // 0 and a % 0, for a rational a or elementwise over a set of
\* rationals, raise InvalidOperandError.
C12_DivisionByZero ==
    (/\ AppliedBinary
     /\ evaluation.operator_symbol \in {"/", "//", "%"}
     /\ evaluation.operands[2] = Fraction(0, 1)
     /\ \/ evaluation.operands[1].kind = "Fraction"
        \/ IsSetOf(evaluation.operands[1], "Fraction"))
    => RaisedOnly(TheOutcome, "InvalidOperandError")

SetAlgebra == {"|", "&", "^", "<", ">", "<=", ">=", "==", "!="}

\* C13: with a set on one side only, the operator is applied between every
\* element and the other operand, in the order of the operands, and the set of
\* the results is returned, an error of an element being the error of the whole;
\* with sets on both sides the set operators apply and every other operator
\* raises InvalidOperandError.
C13_ElementwiseExpansion ==
    AppliedBinary =>
        LET symbol == evaluation.operator_symbol
            left == evaluation.operands[1]
            right == evaluation.operands[2]
            elementwise ==
                IF left.kind = "frozenset"
                THEN UNION {_apply_binary_operator(symbol, x, right) : x \in left.e}
                ELSE UNION {_apply_binary_operator(symbol, left, x) : x \in right.e}
        IN  IF left.kind = "frozenset" /\ right.kind = "frozenset"
            THEN IF symbol \in SetAlgebra
                 THEN /\ TheOutcome.exc = None
                      /\ TheValue(TheOutcome.value).kind \in {"frozenset", "bool"}
                 ELSE RaisedOnly(TheOutcome, "InvalidOperandError")
            ELSE (left.kind = "frozenset" \/ right.kind = "frozenset")
                 => IF \A o \in elementwise : o.exc = None
                    THEN TheOutcome =
                            Returned(frozenset({TheValue(o.value) : o \in elementwise}))
                    ELSE TheOutcome \in {o \in elementwise : o.exc # None}

\* 2 - {{2}, -1} gave {{0}, 3}
C13_Witness ==
    /\ AppliedBinary
    /\ evaluation.operator_symbol = "-"
    /\ evaluation.operands = <<Fraction(2, 1),
                               frozenset({frozenset({Fraction(2, 1)}), Fraction(-1, 1)})>>
    /\ TheOutcome = Returned(frozenset({frozenset({Fraction(0, 1)}), Fraction(3, 1)}))

\* the operands are primitive and the operator is not in the matrix for them
OutsideMatrix(symbol, left, right) ==
    /\ left.kind # "frozenset"
    /\ right.kind # "frozenset"
    /\ \/ left.kind # right.kind
       \/ left.kind = "bool" /\ symbol \notin {"||", "&&", "==", "!="}
       \/ left.kind = "str" /\ symbol \notin {"+", "==", "!="}
       \/ left.kind = "Fraction" /\ symbol \in {"||", "&&"}
       \/ /\ left.kind = "Fraction"
          /\ symbol \in {"|", "&", "^"}
          /\ (left.d # 1 \/ right.d # 1)

\* C17: _apply_binary_operator returns a boolean, a rational, a string or a
\* set, or raises InvalidOperandError, and nothing else; primitive operands
\* outside the operator matrix raise InvalidOperandError.
C17_BinaryOperatorTotal ==
    AppliedBinary =>
        /\ IF TheOutcome.exc = None
           THEN TheValue(TheOutcome.value).kind \in {"bool", "Fraction", "str", "frozenset"}
           ELSE RaisedOnly(TheOutcome, "InvalidOperandError")
        /\ OutsideMatrix(evaluation.operator_symbol, evaluation.operands[1],
                         evaluation.operands[2])
           => RaisedOnly(TheOutcome, "InvalidOperandError")

\* C18: unary + and - return a rational operand multiplied by +1 or -1, unary
\* ! returns a boolean operand negated, and each raises InvalidOperandError on
\* an operand of any other kind.
C18_UnaryOperators ==
    /\ (evaluation.state = "done" /\ evaluation.form = "unary")
       => IF evaluation.operands[1].kind = "Fraction"
          THEN TheOutcome =
                  Returned(Fraction((IF evaluation.operator_symbol = "-" THEN -1 ELSE 1)
                                        * evaluation.operands[1].n,
                                    evaluation.operands[1].d))
          ELSE RaisedOnly(TheOutcome, "InvalidOperandError")
    /\ (evaluation.state = "done" /\ evaluation.form = "logical_not")
       => IF evaluation.operands[1].kind = "bool"
          THEN TheOutcome = Returned(bool(evaluation.operands[1].n = 0))
          ELSE RaisedOnly(TheOutcome, "InvalidOperandError")

----------------------------------------------------------------------------
(* Claims about bit-length sets and the finalised type *)

\* C14: _offset_ is the non-empty set of rationals of the bit-length set of the
\* last accumulator, the response section alone after a response marker; the
\* assertion that _offset_ % 8 == {0} passes exactly when every element of that
\* set is a multiple of 8, as after one uint8 field, and fails otherwise, as
\* after one uint7 field.
C14_Offset ==
    [][(CanRead /\ last'.name = AlignmentCheck("_offset_"))
          => LET struct == Last(Top.structs)
                 offset == compute_bit_length_values(struct)
                 aligned == \A x \in offset : x % 8 = 0
             IN  /\ resolve_top_level_identifier(Top, "_offset_").exc = None
                    => /\ offset # {}
                       /\ TheValue(resolve_top_level_identifier(Top, "_offset_").value)
                             = frozenset({Fraction(x, 1) : x \in offset})
                       /\ last'.op = "on_directive"
                       /\ last'.value = Some(Boolean(aligned))
                       /\ (exc' = None) = aligned
                       /\ ~aligned => TheValue(exc').type = "AssertionCheckFailureError"
                 /\ (~struct.union /\ struct.attributes = <<Field(PrimitiveType("uint8"))>>)
                    => exc' = None
                 /\ (~struct.union /\ struct.attributes = <<Field(PrimitiveType("uint7"))>>)
                    => exc' # None
      ]_vars

\* the assertion passed in the empty response section of a service whose
\* request is one uint7 field
C14_Witness ==
    /\ last.op = "on_directive"
    /\ last.name = AlignmentCheck("_offset_")
    /\ exc = None
    /\ Len(Top.structs) = 2
    /\ Top.structs[1].attributes = <<Field(PrimitiveType("uint7"))>>
    /\ Top.structs[2].attributes = <<>>

RECURSIVE SumSeq(_)
SumSeq(f) == IF f = <<>> THEN 0 ELSE SumSeq(Front(f)) + Last(f)

\* the sums of one element of each set of a sequence of sets
SumsOfChoices(sets) ==
    {SumSeq(f) : f \in {g \in [1..Len(sets) -> UNION Elements(sets)] :
                            \A i \in 1..Len(sets) : g[i] \in sets[i]}}

\* the bit-length sets of the fields among the attributes, in order
FieldSets(attributes) ==
    [i \in 1..Len(FieldDataTypes(attributes))
        |-> bit_length_values(FieldDataTypes(attributes)[i])]

----------------------------------------------------------------------------
(* Claims about conflicting definitions and repeated references *)

\* the lookup definitions of a builder with the full name and version referred to
Requested(self, name, version) ==
    {d \in Elements(self.lookup_definitions) :
        /\ d.full_name = ReferredFullName(self, name)
        /\ VersionEquals(d.version, version)}

\* C19: a reference to a full name and version that several definitions of the
\* builder's lookup list have raises InternalError and no parse_definition is
\* entered; with one such definition, parse_definition is entered for it, and
\* the type it returns, of that definition, becomes the type of the field.
C19_ConflictingDefinitions ==
    [][/\ last'.op = "resolve_versioned_data_type"
          => LET requested == Requested(Top, last'.name, TheValue(last'.version))
             IN  /\ Cardinality(requested) > 1
                    => /\ exc' # None
                       /\ TheValue(exc').type = "InternalError"
                       /\ Len(stack') = Len(stack)
                       /\ parsed' = parsed
                 /\ Cardinality(requested) = 1
                    => /\ exc' = None
                       /\ Len(stack') = Len(stack) + 1
                       /\ Top'.definition \in requested
                       /\ parsed' = Append(parsed, Top'.definition)
       /\ (last'.op = "finalize" /\ exc' = None /\ Len(stack) > 1)
          => LET field == Last(Last(Top'.structs).attributes)
             IN  /\ Len(stack') = Len(stack) - 1
                 /\ field.attribute = "Field"
                 /\ field.data_type.name = Top.definition.full_name
                 /\ field.data_type.version = Top.definition.version
                 /\ field.data_type.source_file_path = Top.definition.file_path
      ]_vars

\* a peer referred to two files of one full name and version, and the host got
\* an InternalError
C19_Witness ==
    /\ result.state = "raised"
    /\ Len(parsed) = 2
    /\ TheValue(result.error).type = "InternalError"
    /\ Says(TheValue(result.error), <<"conflicting", "definitions:">>)
    /\ TheValue(result.error).path = Some(parsed[2].file_path)

\* C20: within one top-level parse_definition, no definition is parsed more
\* than once.
C20_ParsedAtMostOnce ==
    \A i, j \in 1..Len(parsed) : parsed[i] = parsed[j] => i = j

----------------------------------------------------------------------------
(* Claims about termination *)

\* the builder that resolved the latest reference is the frame of this index
ResolverIndex == IF exc # None THEN Len(stack) ELSE Len(stack) - 1

\* the definitions under parse when the latest reference was resolved
UnderParse == {stack[i].definition : i \in 1..ResolverIndex}

\* the latest step resolved a reference to the full name and version of a
\* definition under parse: the resolving one, or one that led to it
ClosesCycle ==
    /\ AfterResolve
    /\ \E d \in UnderParse :
          /\ d.full_name = ReferredFullName(Resolver, last.name)
          /\ VersionEquals(d.version, TheValue(last.version))

\* the definitions the host supplied, as target or in the lookup list, that
\* have the full name and version of the latest reference
Supplied ==
    {d \in Elements(lookup) \cup {target} :
        /\ d.full_name = ReferredFullName(Resolver, last.name)
        /\ VersionEquals(d.version, TheValue(last.version))}

\* the steps a parse_definition with n lookup definitions can still take at
\* most, nested ones included: its return, and for each line of its file the
\* statement and a nested parse_definition with fewer lookup definitions
RECURSIVE ParseCost(_)
ParseCost(n) ==
    IF n < 0 THEN 0 ELSE 1 + MaxLine * (1 + ParseCost(n - 1))

\* the same for an invocation that has read some lines already
FrameCost(self) ==
    1 + (MaxLine - self.line) * (1 + ParseCost(Len(self.lookup_definitions) - 1))

RECURSIVE StackCost(_)
StackCost(s) ==
    IF s = <<>> THEN 0 ELSE FrameCost(s[1]) + StackCost(Tail(s))

\* a natural number that every step of a parse makes smaller
Rank ==
    StackCost(stack)
    + (IF exc = None THEN 1 ELSE 0)
    + (IF result.state = "idle" /\ stack = <<>> THEN 1 + ParseCost(Len(lookup)) ELSE 0)

\* the top-level call has returned or raised
Terminated == stack = <<>> /\ result.state # "idle"

\* the nesting of parse_definition: every nested invocation has a lookup list
\* strictly shorter than its caller's, which is a part of the host's list, so
\* the depth is at most the number of lookup definitions plus one
NestingBounded ==
    /\ Len(stack) <= Len(lookup) + 1
    /\ \A i \in 1..Len(stack) :
          /\ Elements(stack[i].lookup_definitions) \subseteq Elements(lookup)
          /\ Len(stack[i].lookup_definitions) <= Len(lookup)
          /\ i > 1 => Len(stack[i].lookup_definitions)
                      < Len(stack[i - 1].lookup_definitions)

\* C21 as stated, for the reference that closes a cycle: it always ends in
\* UndefinedDataTypeError.
C21_CycleAlwaysUndefined ==
    ClosesCycle => /\ exc # None
                   /\ TheValue(exc).type = "UndefinedDataTypeError"

\* C21, amended: parse_definition terminates for every lookup list and every
\* reference graph. Every nested parse_definition has a lookup list strictly
\* shorter than its caller's, the nesting depth never exceeds the number of
\* lookup definitions plus one, no definition under parse is in the lookup
\* list of an invocation nested in its own, every step lowers a rank that is a
\* natural number, and the top-level call finally returns or raises. A
\* reference that closes a cycle ends in UndefinedDataTypeError if every
\* definition the host supplied with the referred full name and version is
\* under parse (another file of that full name and version is parsed instead,
\* several raise InternalError).
C21_Terminates ==
    /\ [](/\ NestingBounded
          /\ \A i, j \in 1..Len(stack) :
                i <= j => stack[i].definition \notin Elements(stack[j].lookup_definitions)
          /\ (ClosesCycle /\ Supplied \subseteq UnderParse)
             => /\ exc # None
                /\ TheValue(exc).type = "UndefinedDataTypeError")
    /\ [][Rank' < Rank /\ Rank' >= 0]_vars
    /\ <>Terminated

\* A referred to B, and B's reference back to A, which the host had listed,
\* ended in UndefinedDataTypeError
C21_Witness ==
    /\ ClosesCycle
    /\ Len(stack) = 2
    /\ stack[1].definition \in Elements(lookup)
    /\ stack[2].definition \in Elements(lookup)
    /\ stack[1].definition.version # stack[2].definition.version
    /\ ReferredFullName(Top, last.name) = stack[1].definition.full_name
    /\ VersionEquals(stack[1].definition.version, TheValue(last.version))
    /\ Supplied \subseteq UnderParse
    /\ exc # None
    /\ TheValue(exc).type = "UndefinedDataTypeError"

====
